------------------------------ MODULE Spec2Model ------------------------------
(***************************************************************************)
(* MPR to DXF converter: src/app/api/process-mpr/route.js (the parser, the *)
(* DXF writer and the POST handler) and src/app/page.js (the upload form). *)
(*                                                                         *)
(* A JavaScript string is a sequence of one-character strings.  A number   *)
(* is a record [k, m, e]: k = "fin" stands for the decimal m * 10^e kept   *)
(* in normal form (m = 0 and e = 0, or m not divisible by 10), k = "inf"   *)
(* for +/-Infinity (m = 1 or -1), k = "nan" for NaN and k = "null" for     *)
(* the null a field holds before it is set.  Decimal arithmetic is exact;  *)
(* parsing, halving and printing agree with IEEE doubles for literals of   *)
(* at most 14 significant digits in the normal range; the documents of the *)
(* model use at most 8, so that a mantissa fits a 32-bit integer.          *)
(***************************************************************************)
EXTENDS Integers, Sequences, FiniteSets, TLC

VARIABLES
    mprContent,  \* POST: the decoded text of the uploaded file
    hpc,         \* POST: position of the invocation converting mprContent
    lineVars,    \* findLine: its local `variables`
    params,      \* findLine: its local `params`
    circleVars,  \* findCircles: its local `variables`
    circles,     \* findCircles: its local `circles`
    dxfContent,  \* POST: the const dxfContent
    reply,       \* POST: the response returned
    spc,         \* server: position of each concurrent POST invocation
    upload,      \* server: what each request carries (a text, NoFile or BadForm)
    sFile,       \* server: each invocation's local `file`
    sContent,    \* server: each invocation's local mprContent
    sReply,      \* server: the response each invocation returned
    console,     \* server: the process-wide console (last text logged)
    loading,     \* page: useState `loading`
    dxfFile,     \* page: useState `dxfFile`
    alerts,      \* page: number of alert() dialogs shown
    cpc,         \* page: position of each handleSubmit invocation
    cresp        \* page: the response each invocation's fetch resolved with

vars == <<mprContent, hpc, lineVars, params, circleVars, circles, dxfContent, reply, spc, upload, sFile, sContent, sReply, console, loading, dxfFile, alerts, cpc, cresp>>

-----------------------------------------------------------------------------
(* Characters and strings                                                  *)

Digits == <<"0", "1", "2", "3", "4", "5", "6", "7", "8", "9">>

UpperCase == <<"A", "B", "C", "D", "E", "F", "G", "H", "I", "J", "K", "L", "M", "N", "O", "P", "Q", "R", "S", "T", "U", "V", "W", "X", "Y", "Z">>

LowerCase == <<"a", "b", "c", "d", "e", "f", "g", "h", "i", "j", "k", "l", "m", "n", "o", "p", "q", "r", "s", "t", "u", "v", "w", "x", "y", "z">>

Range(f) == {f[i] : i \in DOMAIN f}

DigitSet == Range(Digits)

UpperSet == Range(UpperCase)

LowerSet == Range(LowerCase)

IsDigit(c) == c \in DigitSet

DigitVal(c) == (CHOOSE i \in 1..10 : Digits[i] = c) - 1

\* \w of a regular expression
IsWordChar(c) == c \in DigitSet \/ c \in UpperSet \/ c \in LowerSet \/ c = "_"

\* \s of a regular expression and the white space String.prototype.trim removes
IsSpace(c) == c \in {" ", "\t", "\r", "\n", "\f"}

\* what `.` matches (no line terminator)
IsDot(c) == c \notin {"\n", "\r"}

ToLowerChar(c) == IF c \in UpperSet THEN LowerCase[CHOOSE i \in 1..26 : UpperCase[i] = c] ELSE c

toLowerCase(s) == [i \in 1..Len(s) |-> ToLowerChar(s[i])]

RECURSIVE SkipSpaces(_, _)
\* the first index >= i of s that holds no white space (Len(s) + 1 if none)
SkipSpaces(s, i) == IF i <= Len(s) /\ IsSpace(s[i]) THEN SkipSpaces(s, i + 1) ELSE i

RECURSIVE SkipSpacesBack(_, _)
SkipSpacesBack(s, i) == IF i >= 1 /\ IsSpace(s[i]) THEN SkipSpacesBack(s, i - 1) ELSE i

trim(s) == SubSeq(s, SkipSpaces(s, 1), SkipSpacesBack(s, Len(s)))

startsWith(s, p) == Len(s) >= Len(p) /\ \A i \in 1..Len(p) : s[i] = p[i]

RECURSIVE NextLineFeed(_, _)
\* the first index >= i of s that holds a line feed (Len(s) + 1 if none)
NextLineFeed(s, i) == IF i > Len(s) \/ s[i] = "\n" THEN i ELSE NextLineFeed(s, i + 1)

RECURSIVE SplitFrom(_, _)
\* the pieces of s from index i on
SplitFrom(s, i) ==
    LET n == NextLineFeed(s, i)
    IN  <<SubSeq(s, i, n - 1)>> \o (IF n > Len(s) THEN << >> ELSE SplitFrom(s, n + 1))

\* content.split('\n')
split(s) == SplitFrom(s, 1)

RECURSIVE WordEnd(_, _)
\* the last index of the run of word characters that starts at i
WordEnd(s, i) == IF i < Len(s) /\ IsWordChar(s[i + 1]) THEN WordEnd(s, i + 1) ELSE i

RECURSIVE DigitsEnd(_, _)
\* the last index of the run of digits that starts at i (i - 1 if none)
DigitsEnd(s, i) == IF i <= Len(s) /\ IsDigit(s[i]) THEN DigitsEnd(s, i + 1) ELSE i - 1

RECURSIVE NextQuote(_, _)
\* the first index >= i of s that holds a double quote (0 if none)
NextQuote(s, i) == IF i > Len(s) THEN 0 ELSE IF s[i] = "\"" THEN i ELSE NextQuote(s, i + 1)

-----------------------------------------------------------------------------
(* Numbers                                                                 *)

Null == [k |-> "null", m |-> 0, e |-> 0]

NaN == [k |-> "nan", m |-> 0, e |-> 0]

Infinity(sign) == [k |-> "inf", m |-> sign, e |-> 0]

RECURSIVE Normal(_, _)
Normal(m, e) ==
    IF m = 0 THEN [k |-> "fin", m |-> 0, e |-> 0]
    ELSE IF m % 10 = 0 THEN Normal(m \div 10, e + 1)
    ELSE [k |-> "fin", m |-> m, e |-> e]

RECURSIVE DigitsValue(_, _, _, _)
\* the value of the digits s[i..j], appended to acc
DigitsValue(s, i, j, acc) == IF i > j THEN acc ELSE DigitsValue(s, i + 1, j, 10 * acc + DigitVal(s[i]))

isNaN(v) == v.k = "nan"

isFinite(v) == v.k = "fin"

RECURSIVE NumDigits(_)
NumDigits(n) == IF n < 10 THEN 1 ELSE 1 + NumDigits(n \div 10)

\* a decimal literal sign * mant * 10^exp as a number: out of a double's range
\* (leading digit above 10^308 or below 10^-324) it is an infinity or a zero
Decimal(sign, mant, exp) ==
    IF mant = 0 THEN Normal(0, 0)
    ELSE IF NumDigits(mant) + exp - 1 > 308 THEN Infinity(sign)
    ELSE IF NumDigits(mant) + exp - 1 < -324 THEN Normal(0, 0)
    ELSE Normal(sign * mant, exp)

InfinityWord == <<"I", "n", "f", "i", "n", "i", "t", "y">>

\* parseFloat of a string: white space, then the longest prefix that is a
\* StrDecimalLiteral ([+-] Infinity | digits [. digits] [e [+-] digits])
parseFloat(str) ==
    LET s == str
        i0 == SkipSpaces(s, 1)
        signed == i0 <= Len(s) /\ s[i0] \in {"+", "-"}
        sign == IF signed /\ s[i0] = "-" THEN -1 ELSE 1
        i1 == IF signed THEN i0 + 1 ELSE i0
        ie == DigitsEnd(s, i1)
        hasDot == ie + 1 <= Len(s) /\ s[ie + 1] = "."
        fe == IF hasDot THEN DigitsEnd(s, ie + 2) ELSE ie
        nInt == ie - i1 + 1
        nFrac == IF hasDot THEN fe - (ie + 1) ELSE 0
        x0 == fe + 1
        hasE == x0 <= Len(s) /\ s[x0] \in {"e", "E"}
        xsigned == hasE /\ x0 + 1 <= Len(s) /\ s[x0 + 1] \in {"+", "-"}
        x1 == IF xsigned THEN x0 + 2 ELSE x0 + 1
        xe == IF hasE THEN DigitsEnd(s, x1) ELSE x1 - 1
        hasExp == hasE /\ xe >= x1
        xsign == IF xsigned /\ s[x0 + 1] = "-" THEN -1 ELSE 1
        expo == IF hasExp THEN xsign * DigitsValue(s, x1, xe, 0) ELSE 0
        mant == DigitsValue(s, ie + 2, fe, DigitsValue(s, i1, ie, 0))
    IN  IF startsWith(SubSeq(s, i1, Len(s)), InfinityWord) THEN Infinity(sign)
        ELSE IF nInt + nFrac = 0 THEN NaN
        ELSE Decimal(sign, mant, expo - nFrac)

\* the diameter taken as the radius
HalfForgotten(v) == v

\* du / 2.0
Half(v) == IF v.k = "fin" THEN Normal(v.m * 5, v.e - 1) ELSE v

RECURSIVE NatToString(_)
NatToString(n) == IF n < 10 THEN <<Digits[n + 1]>> ELSE Append(NatToString(n \div 10), Digits[(n % 10) + 1])

Zeros(n) == [i \in 1..n |-> "0"]

\* Number::toString, as a template literal `${v}` formats a number
NumberToString(v) ==
    IF v.k = "nan" THEN <<"N", "a", "N">>
    ELSE IF v.k = "null" THEN <<"n", "u", "l", "l">>
    ELSE IF v.k = "inf" THEN (IF v.m < 0 THEN <<"-", "I", "n", "f", "i", "n", "i", "t", "y">> ELSE <<"I", "n", "f", "i", "n", "i", "t", "y">>)
    ELSE IF v.m = 0 THEN <<"0">>
    ELSE LET neg == v.m < 0
             d == NatToString(IF neg THEN -v.m ELSE v.m)
             kk == Len(d)
             n == kk + v.e
             body == IF kk <= n /\ n <= 21 THEN d \o Zeros(n - kk)
                     ELSE IF 0 < n /\ n <= 21 THEN SubSeq(d, 1, n) \o <<".">> \o SubSeq(d, n + 1, kk)
                     ELSE IF -6 < n /\ n <= 0 THEN <<"0", ".">> \o Zeros(-n) \o d
                     ELSE (IF kk = 1 THEN d ELSE <<d[1]>> \o <<".">> \o SubSeq(d, 2, kk))
                          \o (IF n - 1 < 0 THEN <<"e", "-">> \o NatToString(1 - n) ELSE <<"e", "+">> \o NatToString(n - 1))
         IN  IF neg THEN <<"-">> \o body ELSE body

-----------------------------------------------------------------------------
(* Objects used as tables: const variables = {}                            *)

\* the value of a property that does not exist
Undefined == <<"undefined">>

EmptyObject == [n \in {} |-> << >>]

\* the properties every object inherits from Object.prototype
ObjectPrototypeNames == {<<"_", "_", "p", "r", "o", "t", "o", "_", "_">>, <<"c", "o", "n", "s", "t", "r", "u", "c", "t", "o", "r">>, <<"t", "o", "S", "t", "r", "i", "n", "g">>, <<"t", "o", "L", "o", "c", "a", "l", "e", "S", "t", "r", "i", "n", "g">>, <<"v", "a", "l", "u", "e", "O", "f">>, <<"h", "a", "s", "O", "w", "n", "P", "r", "o", "p", "e", "r", "t", "y">>, <<"i", "s", "P", "r", "o", "t", "o", "t", "y", "p", "e", "O", "f">>, <<"p", "r", "o", "p", "e", "r", "t", "y", "I", "s", "E", "n", "u", "m", "e", "r", "a", "b", "l", "e">>, <<"_", "_", "d", "e", "f", "i", "n", "e", "G", "e", "t", "t", "e", "r", "_", "_">>, <<"_", "_", "d", "e", "f", "i", "n", "e", "S", "e", "t", "t", "e", "r", "_", "_">>, <<"_", "_", "l", "o", "o", "k", "u", "p", "G", "e", "t", "t", "e", "r", "_", "_">>, <<"_", "_", "l", "o", "o", "k", "u", "p", "S", "e", "t", "t", "e", "r", "_", "_">>}

\* String(value) of an inherited property, which is what parseFloat reads
InheritedText(name) ==
    IF name = <<"_", "_", "p", "r", "o", "t", "o", "_", "_">> THEN <<"[", "o", "b", "j", "e", "c", "t", " ", "O", "b", "j", "e", "c", "t", "]">>
    ELSE <<"f", "u", "n", "c", "t", "i", "o", "n", " ">> \o (IF name = <<"c", "o", "n", "s", "t", "r", "u", "c", "t", "o", "r">> THEN <<"O", "b", "j", "e", "c", "t">> ELSE name) \o <<"(", ")", " ", "{", " ", "[", "n", "a", "t", "i", "v", "e", " ", "c", "o", "d", "e", "]", " ", "}">>

\* variables[name] = value: assigning a string to __proto__ is ignored
SetProp(obj, name, value) == IF name = <<"_", "_", "p", "r", "o", "t", "o", "_", "_">> THEN obj ELSE (name :> value) @@ obj

\* variables[name]
GetProp(obj, name) ==
    IF name \in DOMAIN obj THEN obj[name]
    ELSE IF name \in ObjectPrototypeNames THEN InheritedText(name)
    ELSE Undefined

-----------------------------------------------------------------------------
(* The regular expressions                                                 *)

NoMatch == [ok |-> FALSE, key |-> << >>, value |-> << >>]

\* (\w+)\s*=\s*"([^"]+)" matched with the key starting at index p
QuotedMatchAt(s, p) ==
    IF p > Len(s) \/ ~IsWordChar(s[p]) THEN NoMatch
    ELSE LET eq == SkipSpaces(s, WordEnd(s, p) + 1)
             q == IF eq <= Len(s) /\ s[eq] = "=" THEN SkipSpaces(s, eq + 1) ELSE 0
             close == IF q >= 1 /\ q <= Len(s) /\ s[q] = "\"" THEN NextQuote(s, q + 1) ELSE 0
         IN  IF close > q + 1 /\ q >= 1
             THEN [ok |-> TRUE, key |-> SubSeq(s, p, WordEnd(s, p)), value |-> SubSeq(s, q + 1, close - 1)]
             ELSE NoMatch

RECURSIVE QuotedSearch(_, _)
QuotedSearch(s, p) ==
    IF p > Len(s) THEN NoMatch
    ELSE IF QuotedMatchAt(s, p).ok THEN QuotedMatchAt(s, p)
    ELSE QuotedSearch(s, p + 1)

\* line.match(/(\w+)\s*=\s*"([^"]+)"/): the leftmost match anywhere in the line
VarMatch(line) == QuotedSearch(line, 1)

\* currentLine.match(/^(\w+)\s*=\s*"([^"]+)"/)
CircleKeyValueMatch(currentLine) == QuotedMatchAt(currentLine, 1)

\* currentLine.match(/^(\w+)\s*=\s*(.+)$/)
LineKeyValueMatch(currentLine) ==
    LET s == currentLine IN
    IF Len(s) = 0 \/ ~IsWordChar(s[1]) THEN NoMatch
    ELSE LET eq == SkipSpaces(s, WordEnd(s, 1) + 1)
             q == IF eq <= Len(s) /\ s[eq] = "=" THEN SkipSpaces(s, eq + 1) ELSE 0
         IN  IF q >= 1 /\ q <= Len(s) /\ \A i \in q..Len(s) : IsDot(s[i])
             THEN [ok |-> TRUE, key |-> SubSeq(s, 1, WordEnd(s, 1)), value |-> SubSeq(s, q, Len(s))]
             ELSE NoMatch

\* value.replace(/^"(.+)"$/, '$1')
StripQuotes(value) ==
    IF Len(value) >= 3 /\ value[1] = "\"" /\ value[Len(value)] = "\"" /\ \A i \in 2..(Len(value) - 1) : IsDot(value[i])
    THEN SubSeq(value, 2, Len(value) - 1)
    ELSE value

-----------------------------------------------------------------------------
(* parseVariables                                                          *)

Header001 == <<"[", "0", "0", "1">>

\* the test that ends the [001 section
EndsSection001(line) == startsWith(line, <<"[">>) \/ startsWith(line, <<"<">>) \/ startsWith(line, <<"$">>) \/ line = << >>

RECURSIVE parseVariablesFrom(_, _, _, _)
\* the loop of parseVariables from index i on
parseVariablesFrom(lines, i, in001Section, variables) ==
    IF i > Len(lines) THEN variables
    ELSE LET line == trim(lines[i]) IN
         IF startsWith(line, Header001) THEN parseVariablesFrom(lines, i + 1, TRUE, variables)
         ELSE IF ~in001Section THEN parseVariablesFrom(lines, i + 1, FALSE, variables)
         ELSE IF EndsSection001(line) THEN variables
         ELSE LET varMatch == VarMatch(line) IN
              parseVariablesFrom(lines, i + 1, TRUE, IF varMatch.ok THEN SetProp(variables, varMatch.key, varMatch.value) ELSE variables)

parseVariables(lines) == parseVariablesFrom(lines, 1, FALSE, EmptyObject)

-----------------------------------------------------------------------------
(* findLine                                                                *)

Min(a, b) == IF a < b THEN a ELSE b

NullParams == [x |-> Null, y |-> Null, z |-> Null]

\* j < Math.min(i + 11, lines.length)
LineWindowLimit == 11

LineMarker == <<"$", "E">>

\* the test without the blank line
LineWindowEndsNoBlank(currentLine) == startsWith(currentLine, LineMarker) \/ startsWith(currentLine, <<"[">>) \/ startsWith(currentLine, <<"<">>)

\* the test that closes the window of a $E section
LineWindowEnds(currentLine) == startsWith(currentLine, LineMarker) \/ startsWith(currentLine, <<"[">>) \/ startsWith(currentLine, <<"<">>) \/ currentLine = << >>

\* the substitution applied to its own result
SubstituteTwice(variables, value) ==
    LET once == IF GetProp(variables, value) # Undefined THEN GetProp(variables, value) ELSE value
    IN  IF GetProp(variables, once) # Undefined THEN GetProp(variables, once) ELSE once

\* Substitute variable if necessary
Substitute(variables, value) == IF GetProp(variables, value) # Undefined THEN GetProp(variables, value) ELSE value

\* the loop body with a non-numeric value clearing the field
LineFieldClearing(p, variables, match) ==
    LET key == toLowerCase(match.key)
        numericValue == parseFloat(Substitute(variables, StripQuotes(trim(match.value))))
        stored == IF isNaN(numericValue) THEN Null ELSE numericValue
    IN  IF key = <<"x">> THEN [p EXCEPT !.x = stored]
        ELSE IF key = <<"y">> THEN [p EXCEPT !.y = stored]
        ELSE IF key = <<"z">> THEN [p EXCEPT !.z = stored]
        ELSE p

\* the body of the window loop of findLine for one line that matched
LineField(p, variables, match) ==
    LET key == toLowerCase(match.key)
        numericValue == parseFloat(Substitute(variables, StripQuotes(trim(match.value))))
    IN  IF isNaN(numericValue) THEN p
        ELSE IF key = <<"x">> THEN [p EXCEPT !.x = numericValue]
        ELSE IF key = <<"y">> THEN [p EXCEPT !.y = numericValue]
        ELSE IF key = <<"z">> THEN [p EXCEPT !.z = numericValue]
        ELSE p

RECURSIVE ScanLineWindow(_, _, _, _, _)
\* the window loop of findLine, from index j, over the indexes below bound
ScanLineWindow(lines, variables, j, bound, p) ==
    IF j >= bound THEN p
    ELSE LET currentLine == trim(lines[j]) IN
         IF LineWindowEnds(currentLine) THEN p
         ELSE LET match == LineKeyValueMatch(currentLine) IN
              ScanLineWindow(lines, variables, j + 1, bound, IF match.ok THEN LineField(p, variables, match) ELSE p)

RECURSIVE FirstStartingWith(_, _, _)
\* the index of the first line from i on whose trimmed text starts with marker (0 if none)
FirstStartingWith(lines, marker, i) ==
    IF i > Len(lines) THEN 0
    ELSE IF startsWith(trim(lines[i]), marker) THEN i
    ELSE FirstStartingWith(lines, marker, i + 1)

\* the params of findLine when its outer loop ends (indexes count from 1)
ScanLine(lines, variables) ==
    LET i == FirstStartingWith(lines, LineMarker, 1) IN
    IF i = 0 THEN NullParams
    ELSE ScanLineWindow(lines, variables, i + 1, Min(i + LineWindowLimit, Len(lines) + 1), NullParams)

\* the check without z
LineThrowsXY(p) == \E v \in {p.x, p.y} : v = Null \/ isNaN(v)

\* Object.values(params).some((v) => v === null || isNaN(v))
LineThrows(p) == \E v \in {p.x, p.y, p.z} : v = Null \/ isNaN(v)

LineErrorMessage == <<"O", "n", "e", " ", "o", "r", " ", "m", "o", "r", "e", " ", "p", "a", "r", "a", "m", "e", "t", "e", "r", "s", " ", "(", "x", ",", " ", "y", ",", " ", "z", ")", " ", "w", "e", "r", "e", " ", "n", "o", "t", " ", "f", "o", "u", "n", "d", " ", "i", "n", " ", "t", "h", "e", " ", "f", "i", "l", "e", ".">>

-----------------------------------------------------------------------------
(* findCircles                                                             *)

NullCircle == [xa |-> Null, ya |-> Null, du |-> Null]

\* j < Math.min(i + 16, lines.length)
CircleWindowLimit == 16

CircleMarker == <<"<", "1", "0", "2">>

\* the test that closes the window of a <102 section
CircleWindowEnds(currentLine) == startsWith(currentLine, <<"<">>) \/ startsWith(currentLine, <<"[">>) \/ startsWith(currentLine, <<"$">>) \/ currentLine = << >>

\* the body of the window loop of findCircles for one line that matched
CircleField(circle, variables, match) ==
    LET key == toLowerCase(match.key)
        numericValue == parseFloat(Substitute(variables, trim(match.value)))
    IN  IF isNaN(numericValue) THEN circle
        ELSE IF key = <<"x", "a">> THEN [circle EXCEPT !.xa = numericValue]
        ELSE IF key = <<"y", "a">> THEN [circle EXCEPT !.ya = numericValue]
        ELSE IF key = <<"d", "u">> THEN [circle EXCEPT !.du = numericValue]
        ELSE circle

RECURSIVE ScanCircleWindow(_, _, _, _, _)
ScanCircleWindow(lines, variables, j, bound, circle) ==
    IF j >= bound THEN circle
    ELSE LET currentLine == trim(lines[j]) IN
         IF CircleWindowEnds(currentLine) THEN circle
         ELSE LET match == CircleKeyValueMatch(currentLine) IN
              ScanCircleWindow(lines, variables, j + 1, bound, IF match.ok THEN CircleField(circle, variables, match) ELSE circle)

\* the check without du
CircleCompleteXY(circle) == \A v \in {circle.xa, circle.ya} : v # Null /\ ~isNaN(v)

\* Object.values(circle).every((v) => v !== null && !isNaN(v))
CircleComplete(circle) == \A v \in {circle.xa, circle.ya, circle.du} : v # Null /\ ~isNaN(v)

RECURSIVE ScanCircles(_, _, _, _)
\* the outer loop of findCircles from index i on
ScanCircles(lines, variables, i, found) ==
    IF i > Len(lines) THEN found
    ELSE IF startsWith(trim(lines[i]), CircleMarker)
         THEN LET circle == ScanCircleWindow(lines, variables, i + 1, Min(i + CircleWindowLimit, Len(lines) + 1), NullCircle) IN
              ScanCircles(lines, variables, i + 1, IF CircleComplete(circle) THEN Append(found, circle) ELSE found)
         ELSE ScanCircles(lines, variables, i + 1, found)

findCircles(content) == ScanCircles(split(content), parseVariables(split(content)), 1, << >>)

-----------------------------------------------------------------------------
(* createDxf                                                               *)

\* the text one circle adds
CircleEntity(circle) ==
    <<"0", "\n", "C", "I", "R", "C", "L", "E", "\n">> \o <<"8", "\n", "0", "\n">>
    \o <<"1", "0", "\n">> \o NumberToString(circle.xa) \o <<"\n">>
    \o <<"2", "0", "\n">> \o NumberToString(circle.ya) \o <<"\n">>
    \o <<"3", "0", "\n", "0", ".", "0", "\n">>
    \o <<"4", "0", "\n">> \o NumberToString(Half(circle.du)) \o <<"\n">>

RECURSIVE CircleEntities(_, _)
CircleEntities(cs, k) == IF k > Len(cs) THEN << >> ELSE CircleEntity(cs[k]) \o CircleEntities(cs, k + 1)

createDxf(line, cs) ==
    <<"0", "\n", "S", "E", "C", "T", "I", "O", "N", "\n", "2", "\n", "H", "E", "A", "D", "E", "R", "\n", "0", "\n", "E", "N", "D", "S", "E", "C", "\n">>
    \o <<"0", "\n", "S", "E", "C", "T", "I", "O", "N", "\n", "2", "\n", "E", "N", "T", "I", "T", "I", "E", "S", "\n">>
    \o <<"0", "\n", "L", "I", "N", "E", "\n">> \o <<"8", "\n", "0", "\n">> \o <<"1", "0", "\n", "0", ".", "0", "\n">> \o <<"2", "0", "\n", "0", ".", "0", "\n">>
    \o <<"3", "0", "\n">> \o NumberToString(line.z) \o <<"\n">>
    \o <<"1", "1", "\n">> \o NumberToString(line.x) \o <<"\n">>
    \o <<"2", "1", "\n">> \o NumberToString(line.y) \o <<"\n">>
    \o <<"3", "1", "\n">> \o NumberToString(line.z) \o <<"\n">>
    \o CircleEntities(cs, 1)
    \o <<"0", "\n", "E", "N", "D", "S", "E", "C", "\n">> \o <<"0", "\n", "E", "O", "F">>

-----------------------------------------------------------------------------
(* The documents the model converts                                        *)

\* the most pieces in the body of a $E section
MaxLineBody == 2

\* the most pieces after the line section of a circle document
MaxCircleBody == 2

\* the most lines in the body of a [001 section
MaxVarLines == 2

\* the most filler lines between a marker and the fields of its section
MaxFill == 13

RECURSIVE Join(_)
\* the pieces, each followed by a line feed
Join(pieces) == IF pieces = << >> THEN << >> ELSE Head(pieces) \o <<"\n">> \o Join(Tail(pieces))

SeqsUpTo(S, n) == UNION {[1..k -> S] : k \in 0..n}

\* a line both window loops read and ignore
Filler == <<"K", "M", "=", "\"", "0", "\"">>

Fill(k) == [i \in 1..k |-> Filler]

VarsSection == <<<<"[", "0", "0", "1">>, <<"F", "O", "O", "=", "\"", "1", "2", ".", "5", "\"">>, <<"B", "A", "R", "=", "\"", "F", "O", "O", "\"">>, << >>>>

LineSection == <<<<"$", "E">>, <<"X", "=", "F", "O", "O">>, <<"X", "=", "B", "A", "R">>, <<"Y", "=", "2">>, <<"Z", "=", "3">>>>

CircleSection == <<<<"<", "1", "0", "2">>, <<"X", "A", "=", "\"", "1", "0", "0", "\"">>, <<"Y", "A", "=", "\"", "2", "0", "0", "\"">>, <<"D", "U", "=", "\"", "F", "O", "O", "\"">>, <<"D", "U", "=", "\"", "B", "A", "R", "\"">>>>

LinePieces == {<<"X", "=", "1", "\n", "Y", "=", "2", "\n", "Z", "=", "3">>, <<"\n", "X", "=", "9">>, <<"$", "E", "\n", "X", "=", "9", "\n", "Y", "=", "8", "\n", "Z", "=", "7">>, <<"X", "=", "1">>, <<"Y", "=", "2", "\n", "Z", "=", "3">>, <<"x", " ", "=", " ", "\"", "4", ".", "5", "\"">>, <<"X", "=", "F", "O", "O">>, <<"X", "=", "B", "A", "R">>, <<"Z", "=", "I", "n", "f", "i", "n", "i", "t", "y">>, << >>, <<"$", "E">>, <<"$", "X">>, <<"<", "1", "0", "0">>, <<" ", "Y", "=", "7", "m", "m", "\r">>}

CirclePieces == {<<"<", "1", "0", "2", "\n", "X", "A", "=", "\"", "3", "\"", "\n", "Y", "A", "=", "\"", "4", "\"", "\n", "<", "1", "0", "2", ">", "\n", "x", "a", " ", "=", " ", "\"", "5", "\"", "\n", "Y", "A", "=", "\"", "6", "\"", "\n", "D", "U", "=", "\"", "F", "O", "O", "\"">>, <<"\n", "D", "U", "=", "\"", "8", "\"">>, <<"[", "\n", "<", "1", "0", "2", "\n", "D", "U", "=", "\"", "6", "\"", "\n", "Y", "A", "=", "\"", "5", "\"", "\n", "X", "A", "=", "\"", "4", "\"">>, <<"<", "1", "0", "2", "\n", "X", "A", "=", "\"", "1", "\"", "\n", "Y", "A", "=", "\"", "2", "\"", "\n", "D", "U", "=", "\"", "4", "0", "\"">>, <<"<", "1", "0", "2", ">", "\n", "x", "a", " ", "=", " ", "\"", "5", "\"", "\n", "Y", "A", "=", "\"", "6", "\"", "\n", "D", "U", "=", "\"", "F", "O", "O", "\"">>, <<"<", "1", "0", "2", "\n", "X", "A", "=", "\"", "3", "\"", "\n", "Y", "A", "=", "\"", "4", "\"">>, <<"D", "U", "=", "\"", "8", "\"">>, <<"D", "U", "=", "\"", "B", "A", "R", "\"">>, <<"D", "U", "=", "9">>, << >>, <<"$", "X">>, <<"D", "U", "=", "\"", "I", "n", "f", "i", "n", "i", "t", "y", "\"">>, <<"<", "1", "0", "2">>}

VarPieces == {<<"[", "0", "0", "1", "\n", "B", "A", "Z", "=", "\"", "2", "\"">>, <<"F", "O", "O", "=", "\"", "1", "2", ".", "5", "\"">>, <<"F", "O", "O", " ", "=", " ", "\"", "3", "\"">>, <<"B", "A", "R", "=", "\"", "F", "O", "O", "\"">>, <<"[", "0", "0", "1">>, << >>, <<"<", "1", "0", "0">>, <<"_", "_", "p", "r", "o", "t", "o", "_", "_", "=", "\"", "5", "\"">>, <<"a", " ", "F", "O", "O", "=", "\"", "7", "\"", " ", "b">>}

LineBoundaryBodies == {<<<<"X", "=", "1">>, <<"Y", "=", "2">>, <<"Z", "=", "3">>, <<"X", "=", "9">>>>, <<<<"Y", "=", "2">>, <<"Z", "=", "3">>, <<"X", "=", "1">>>>, <<<<"X", "=", "F", "O", "O">>>>}

CircleBoundaryBodies == {<<<<"X", "A", "=", "\"", "1", "\"">>, <<"Y", "A", "=", "\"", "2", "\"">>, <<"D", "U", "=", "\"", "4", "0", "\"">>, <<"D", "U", "=", "\"", "8", "\"">>>>, <<<<"D", "U", "=", "\"", "4", "0", "\"">>, <<"X", "A", "=", "\"", "1", "\"">>, <<"Y", "A", "=", "\"", "2", "\"">>>>, <<<<"D", "U", "=", "\"", "8", "\"">>>>}

LineDocs ==
    {Join(VarsSection \o <<LineMarker>> \o body \o CircleSection) : body \in SeqsUpTo(LinePieces, MaxLineBody)}
    \cup {Join(VarsSection \o <<LineMarker>> \o Fill(k) \o body \o CircleSection) : k \in 1..MaxFill, body \in LineBoundaryBodies}

CircleDocs ==
    {Join(VarsSection \o LineSection \o body) : body \in SeqsUpTo(CirclePieces, MaxCircleBody)}
    \cup {Join(VarsSection \o LineSection \o <<CircleMarker>> \o Fill(k) \o body) : k \in 1..MaxFill, body \in CircleBoundaryBodies}

VarDocs ==
    {Join(pre \o hdr \o body \o <<<<"$", "E">>, <<"X", "=", "F", "O", "O">>, <<"Y", "=", "2">>, <<"Z", "=", "3">>>> \o CircleSection) : pre \in {<< >>, <<<<"F", "O", "O", "=", "\"", "9", "\"">>>>}, hdr \in {<< >>, <<Header001>>}, body \in SeqsUpTo(VarPieces, MaxVarLines)}

OtherDocs ==
    {<< >>,
     <<"[", "0", "0", "1", "]", "\n", "S", "C", "A", "L", "E", "=", "\"", "2", ".", "0", "\"", "\n", "\n", "$", "E", "\n", "X", "=", "1", "0", "\n", "Y", "=", "2", "0", "\n", "Z", "=", "5", "\n", "<", "1", "0", "2", ">", "\n", "X", "A", "=", "\"", "1", "0", "0", "\"", "\n", "Y", "A", "=", "\"", "2", "0", "0", "\"", "\n", "D", "U", "=", "\"", "S", "C", "A", "L", "E", "\"", "\n">>,
     <<"$", "E", "\n", "X", "=", "v", "a", "l", "u", "e", "O", "f", "\n", "Y", "=", "1", "e", "9", "9", "9", "\n", "Z", "=", "-", "0", ".", "5", "0", "\n", "X", "=", "\"", "2", ".", "5", "e", "1", "\"">>,
     <<"$", "E", "\n", "X", "=", "1", "e", "2", "1", "\n", "Y", "=", "1", "e", "-", "7", "\n", "Z", "=", "-", "0", "\n", "<", "1", "0", "2", "\n", "X", "A", "=", "\"", "1", "2", "3", "4", "5", "6", "7", "8", "\"", "\n", "Y", "A", "=", "\"", "0", ".", "0", "0", "0", "0", "0", "1", "\"", "\n", "D", "U", "=", "\"", "3", "e", "-", "7", "\"", "\n", "<", "1", "0", "2", "\n", "X", "A", "=", "\"", "c", "o", "n", "s", "t", "r", "u", "c", "t", "o", "r", "\"", "\n", "Y", "A", "=", "\"", "-", "1", "e", "2", "1", "\"", "\n", "D", "U", "=", "\"", "2", "5", "\"", "\n", "x", "a", "=", "\"", ".", "5", "\"">>,
     <<"$", "E", "\r", "\n", "X", "=", "1", "\r", "\n", "Y", "=", "2", "\r", "\n", "Z", "=", "\"", "3", "\"", "\r", "\n", "<", "1", "0", "2", "\r", "\n", "X", "A", "=", "\"", "1", "\"", "\r", "\n", "Y", "A", "=", "\"", "2", "\"", "\r", "\n", "D", "U", "=", "\"", "5", "\"", "\r", "\n">>}

Docs == LineDocs \cup CircleDocs \cup VarDocs \cup OtherDocs

-----------------------------------------------------------------------------
(* One POST invocation, from the decoded text on (route.js 255-284)        *)

NoReply == [status |-> 0, type |-> "none", body |-> << >>]

\* new NextResponse(dxfContent, {status: 200, ...})
DxfResponse(text) == [status |-> 200, type |-> "application/dxf", body |-> text]

\* NextResponse.json({error: message}, {status})
ErrorResponse(status, message) == [status |-> status, type |-> "json", body |-> message]

InitHandler ==
    /\ mprContent \in Docs
    /\ hpc = "read"
    /\ lineVars = EmptyObject
    /\ params = NullParams
    /\ circleVars = EmptyObject
    /\ circles = << >>
    /\ dxfContent = << >>
    /\ reply = NoReply

handlerVars == <<mprContent, hpc, lineVars, params, circleVars, circles, dxfContent, reply>>

serverVars == <<spc, upload, sFile, sContent, sReply, console>>

pageVars == <<loading, dxfFile, alerts, cpc, cresp>>

\* const line = findLine(mprContent): returns params or throws
CallFindLine ==
    /\ hpc = "read"
    /\ lineVars' = parseVariables(split(mprContent))
    /\ params' = ScanLine(split(mprContent), lineVars')
    /\ hpc' = IF LineThrows(params') THEN "caught" ELSE "line"
    /\ UNCHANGED <<mprContent, circleVars, circles, dxfContent, reply>>
    /\ UNCHANGED <<serverVars, pageVars>>

\* const circles = findCircles(mprContent)
CallFindCircles ==
    /\ hpc = "line"
    /\ circleVars' = parseVariables(split(mprContent))
    /\ circles' = ScanCircles(split(mprContent), circleVars', 1, << >>)
    /\ hpc' = "circles"
    /\ UNCHANGED <<mprContent, lineVars, params, dxfContent, reply>>
    /\ UNCHANGED <<serverVars, pageVars>>

\* const dxfContent = createDxf(line, circles)
CallCreateDxf ==
    /\ hpc = "circles"
    /\ dxfContent' = createDxf(params, circles)
    /\ hpc' = "dxf"
    /\ UNCHANGED <<mprContent, lineVars, params, circleVars, circles, reply>>
    /\ UNCHANGED <<serverVars, pageVars>>

\* return new NextResponse(dxfContent, {status: 200, ...})
Respond200 ==
    /\ hpc = "dxf"
    /\ reply' = DxfResponse(dxfContent)
    /\ hpc' = "done"
    /\ UNCHANGED <<mprContent, lineVars, params, circleVars, circles, dxfContent>>
    /\ UNCHANGED <<serverVars, pageVars>>

\* catch (error): return NextResponse.json({error: error.message}, {status: 500})
Respond500 ==
    /\ hpc = "caught"
    /\ reply' = ErrorResponse(500, LineErrorMessage)
    /\ hpc' = "done"
    /\ UNCHANGED <<mprContent, lineVars, params, circleVars, circles, dxfContent>>
    /\ UNCHANGED <<serverVars, pageVars>>

-----------------------------------------------------------------------------
(* Concurrent POST invocations (route.js 242-285)                          *)

\* the number of requests in flight together
NReq == 2

Req == 1..NReq

\* a request whose form holds no mprFile entry
NoFile == <<"no file">>

\* a request whose body is not form data: request.formData() rejects
BadForm == <<"not a form">>

ServerDocs ==
    {<< >>,
     <<"$", "E", "\n", "X", "=", "1", "\n", "Y", "=", "2", "\n", "Z", "=", "3", "\n", "<", "1", "0", "2", "\n", "X", "A", "=", "\"", "4", "\"", "\n", "Y", "A", "=", "\"", "5", "\"", "\n", "D", "U", "=", "\"", "6", "\"">>,
     <<"[", "0", "0", "1", "\n", "T", "=", "\"", "9", "\"", "\n", "$", "E", "\n", "X", "=", "T", "\n", "Y", "=", "2", "\n", "Z", "=", "T">>}

Uploads == ServerDocs \cup {NoFile, BadForm}

FormErrorMessage == <<"F", "a", "i", "l", "e", "d", " ", "t", "o", " ", "p", "a", "r", "s", "e", " ", "b", "o", "d", "y", " ", "a", "s", " ", "F", "o", "r", "m", "D", "a", "t", "a", ".">>

NoFileMessage == <<"N", "o", " ", "f", "i", "l", "e", " ", "u", "p", "l", "o", "a", "d", "e", "d">>

\* lines 261-283 run without an await: the response to a decoded text
Convert(content) ==
    LET line == ScanLine(split(content), parseVariables(split(content))) IN
    IF LineThrows(line) THEN ErrorResponse(500, LineErrorMessage)
    ELSE DxfResponse(createDxf(line, findCircles(content)))

\* the last text the invocation writes to the console
LastLogged(response) == IF response.status = 200 THEN <<"D", "X", "F", " ", "C", "o", "n", "t", "e", "n", "t", ":", "\n">> \o response.body ELSE <<"E", "r", "r", "o", "r", ":", " ">> \o response.body

InitServer ==
    /\ spc = [r \in Req |-> "idle"]
    /\ upload = [r \in Req |-> NoFile]
    /\ sFile = [r \in Req |-> NoFile]
    /\ sContent = [r \in Req |-> << >>]
    /\ sReply = [r \in Req |-> NoReply]
    /\ console = << >>

\* the file kept in one place for all invocations: that of the latest still awaiting
FileOfLatest(r) == sFile[CHOOSE q \in Req : spc[q] = "arrayBuffer" /\ \A o \in Req : spc[o] = "arrayBuffer" => o <= q]

\* the file whose bytes invocation r awaits: its own const file
FileOf(r) == sFile[r]

\* POST(request) is called and awaits request.formData()
Receive(r) ==
    /\ spc[r] = "idle"
    /\ \E u \in Uploads : upload' = [upload EXCEPT ![r] = u]
    /\ spc' = [spc EXCEPT ![r] = "formData"]
    /\ UNCHANGED <<sFile, sContent, sReply, console>>
    /\ UNCHANGED <<handlerVars, pageVars>>

\* request.formData() rejects: the catch block answers 500
FormDataRejects(r) ==
    /\ spc[r] = "formData"
    /\ upload[r] = BadForm
    /\ sReply' = [sReply EXCEPT ![r] = ErrorResponse(500, FormErrorMessage)]
    /\ console' = LastLogged(sReply'[r])
    /\ spc' = [spc EXCEPT ![r] = "done"]
    /\ UNCHANGED <<upload, sFile, sContent>>
    /\ UNCHANGED <<handlerVars, pageVars>>

\* formData.get('mprFile') is null: 400
FormDataWithoutFile(r) ==
    /\ spc[r] = "formData"
    /\ upload[r] = NoFile
    /\ sReply' = [sReply EXCEPT ![r] = ErrorResponse(400, NoFileMessage)]
    /\ spc' = [spc EXCEPT ![r] = "done"]
    /\ UNCHANGED <<upload, sFile, sContent, console>>
    /\ UNCHANGED <<handlerVars, pageVars>>

\* formData.get('mprFile') is a file: await file.arrayBuffer()
FormDataWithFile(r) ==
    /\ spc[r] = "formData"
    /\ upload[r] \notin {NoFile, BadForm}
    /\ sFile' = [sFile EXCEPT ![r] = upload[r]]
    /\ spc' = [spc EXCEPT ![r] = "arrayBuffer"]
    /\ UNCHANGED <<upload, sContent, sReply, console>>
    /\ UNCHANGED <<handlerVars, pageVars>>

\* file.arrayBuffer() resolves; the rest of the handler runs to its return
ArrayBufferResolves(r) ==
    /\ spc[r] = "arrayBuffer"
    /\ sContent' = [sContent EXCEPT ![r] = FileOf(r)]
    /\ sReply' = [sReply EXCEPT ![r] = Convert(sContent'[r])]
    /\ console' = LastLogged(sReply'[r])
    /\ spc' = [spc EXCEPT ![r] = "done"]
    /\ UNCHANGED <<upload, sFile>>
    /\ UNCHANGED <<handlerVars, pageVars>>

-----------------------------------------------------------------------------
(* The upload page: handleSubmit (page.js 10-32)                           *)

\* the number of times the form is submitted
NSubmit == 3

Sub == 1..NSubmit

InitPage ==
    /\ loading = FALSE
    /\ dxfFile = 0
    /\ alerts = 0
    /\ cpc = [i \in Sub |-> "idle"]
    /\ cresp = [i \in Sub |-> "none"]

\* the form is submitted: setLoading(true), then await fetch(...)
Submit(i) ==
    /\ cpc[i] = "idle"
    /\ loading' = TRUE
    /\ cpc' = [cpc EXCEPT ![i] = "fetch"]
    /\ UNCHANGED <<dxfFile, alerts, cresp>>
    /\ UNCHANGED <<handlerVars, serverVars>>

\* fetch resolves with a response: await response.blob() or response.json()
FetchResolves(i) ==
    /\ cpc[i] = "fetch"
    /\ \E ok \in BOOLEAN :
        /\ cresp' = [cresp EXCEPT ![i] = IF ok THEN "ok" ELSE "error"]
        /\ cpc' = [cpc EXCEPT ![i] = IF ok THEN "blob" ELSE "json"]
    /\ UNCHANGED <<loading, dxfFile, alerts>>
    /\ UNCHANGED <<handlerVars, serverVars>>

\* fetch, response.blob() or response.json() rejects: handleSubmit ends there,
\* by the exception, and line 31 is not run
AwaitRejects(i) ==
    /\ cpc[i] \in {"fetch", "blob", "json"}
    /\ cpc' = [cpc EXCEPT ![i] = "threw"]
    /\ UNCHANGED <<loading, dxfFile, alerts, cresp>>
    /\ UNCHANGED <<handlerVars, serverVars>>

\* response.blob() resolves: setDxfFile(url); setLoading(false)
BlobResolves(i) ==
    /\ cpc[i] = "blob"
    /\ dxfFile' = i
    /\ loading' = FALSE
    /\ cpc' = [cpc EXCEPT ![i] = "returned"]
    /\ UNCHANGED <<alerts, cresp>>
    /\ UNCHANGED <<handlerVars, serverVars>>

\* response.json() resolves: alert(...); setLoading(false)
JsonResolves(i) ==
    /\ cpc[i] = "json"
    /\ alerts' = alerts + 1
    /\ loading' = FALSE
    /\ cpc' = [cpc EXCEPT ![i] = "returned"]
    /\ UNCHANGED <<dxfFile, cresp>>
    /\ UNCHANGED <<handlerVars, serverVars>>

-----------------------------------------------------------------------------
(* The specifications                                                      *)

\* one conversion, over every document of Docs
Init == InitHandler /\ InitServer /\ InitPage

Next == CallFindLine \/ CallFindCircles \/ CallCreateDxf \/ Respond200 \/ Respond500

Spec == Init /\ [][Next]_vars

\* the server under NReq concurrent requests
InitIdleHandler ==
    /\ mprContent = << >>
    /\ hpc = "idle"
    /\ lineVars = EmptyObject
    /\ params = NullParams
    /\ circleVars = EmptyObject
    /\ circles = << >>
    /\ dxfContent = << >>
    /\ reply = NoReply

ServerInit == InitIdleHandler /\ InitServer /\ InitPage

ServerNext == \E r \in Req : Receive(r) \/ FormDataRejects(r) \/ FormDataWithoutFile(r) \/ FormDataWithFile(r) \/ ArrayBufferResolves(r)

SpecServer == ServerInit /\ [][ServerNext]_vars

\* the page under NSubmit submissions
PageInit == InitIdleHandler /\ InitServer /\ InitPage

PageNext == \E i \in Sub : Submit(i) \/ FetchResolves(i) \/ AwaitRejects(i) \/ BlobResolves(i) \/ JsonResolves(i)

SpecPage == PageInit /\ [][PageNext]_vars

-----------------------------------------------------------------------------
(* The document as the specification describes it                         *)

SetMax(S) == CHOOSE a \in S : \A b \in S : b <= a

SetMin(S) == CHOOSE a \in S : \A b \in S : a <= b

\* findLine has run (it returned or threw)
LineScanned == hpc # "read"

\* findLine has returned its params
LineReturned == hpc \in {"line", "circles", "dxf"} \/ (hpc = "done" /\ reply.status = 200)

\* findCircles has returned
CirclesReturned == hpc \in {"circles", "dxf"} \/ (hpc = "done" /\ reply.status = 200)

\* createDxf has returned
DxfCreated == hpc = "dxf" \/ (hpc = "done" /\ reply.status = 200)

\* the lines following a $E marker that are read: 10 at most
LineLookahead == 10

\* the lines following a <102 marker that are read: 15 at most
CircleLookahead == 15

RECURSIVE TrimFrom(_, _)
\* the lines from i on, each trimmed
TrimFrom(lines, i) == IF i > Len(lines) THEN << >> ELSE <<trim(lines[i])>> \o TrimFrom(lines, i + 1)

\* a token resolved through the table by one lookup, then parsed
Resolved(table, token) == IF token \in DOMAIN table THEN parseFloat(table[token]) ELSE parseFloat(token)

NoOccurrence == [key |-> << >>, token |-> << >>, value |-> NaN]

\* a line of a $E section as an occurrence of a key: the key in lower case, the
\* value token with its quotes stripped, and the number it resolves to
LineOccurrence(l, table) ==
    LET m == LineKeyValueMatch(l)
        token == StripQuotes(trim(m.value))
    IN  IF m.ok THEN [key |-> toLowerCase(m.key), token |-> token, value |-> Resolved(table, token)] ELSE NoOccurrence

\* a line of a <102 section as an occurrence of a key
CircleOccurrence(l, table) ==
    LET m == CircleKeyValueMatch(l)
        token == trim(m.value)
    IN  IF m.ok THEN [key |-> toLowerCase(m.key), token |-> token, value |-> Resolved(table, token)] ELSE NoOccurrence

RECURSIVE LineOccurrencesFrom(_, _, _)
LineOccurrencesFrom(t, table, i) == IF i > Len(t) THEN << >> ELSE <<LineOccurrence(t[i], table)>> \o LineOccurrencesFrom(t, table, i + 1)

RECURSIVE CircleOccurrencesFrom(_, _, _)
CircleOccurrencesFrom(t, table, i) == IF i > Len(t) THEN << >> ELSE <<CircleOccurrence(t[i], table)>> \o CircleOccurrencesFrom(t, table, i + 1)

LineCut(l) == l = << >> \/ startsWith(l, <<"$", "E">>) \/ startsWith(l, <<"[">>) \/ startsWith(l, <<"<">>)

CircleCut(l) == l = << >> \/ startsWith(l, <<"<">>) \/ startsWith(l, <<"[">>) \/ startsWith(l, <<"$">>)

\* the lookahead window of the $E line m of the trimmed lines t (none if m = 0)
LineWindowOf(t, m) == {j \in 1..Len(t) : m # 0 /\ m < j /\ j <= m + LineLookahead /\ \A k \in (m + 1)..j : ~LineCut(t[k])}

\* the lookahead window of the <102 line i
CircleWindowOf(t, i) == {j \in 1..Len(t) : i < j /\ j <= i + CircleLookahead /\ \A k \in (i + 1)..j : ~CircleCut(t[k])}

\* the lines of window w that set field f: occurrences of f whose value is a number
Setters(occ, w, f) == {j \in w : occ[j].key = f /\ ~isNaN(occ[j].value)}

\* the occurrences of a recognized key in window w that are not numbers or are
\* followed in w by a numeric occurrence of the same key
Overruled(occ, w, keys) == {j \in w : occ[j].key \in keys /\ (isNaN(occ[j].value) \/ \E j2 \in w : j2 > j /\ occ[j2].key = occ[j].key /\ ~isNaN(occ[j2].value))}

\* the value the last setter leaves in a field
LastSet(occ, s) == IF s = {} THEN Null ELSE occ[SetMax(s)].value

MarkersOf(t, marker) == {i \in 1..Len(t) : startsWith(t[i], marker)}

\* the document as findLine reads it
LineView ==
    LET lines == split(mprContent)
        t == TrimFrom(lines, 1)
        occ == LineOccurrencesFrom(t, lineVars, 1)
        markers == MarkersOf(t, <<"$", "E">>)
        first == IF markers = {} THEN 0 ELSE SetMin(markers)
        w == LineWindowOf(t, first)
    IN  [lines |-> lines, t |-> t, occ |-> occ, markers |-> markers, first |-> first, window |-> w,
         x |-> Setters(occ, w, <<"x">>), y |-> Setters(occ, w, <<"y">>), z |-> Setters(occ, w, <<"z">>)]

LineIncomplete(v) == v.x = {} \/ v.y = {} \/ v.z = {}

\* the <102 line i: its window and the lines that set each field
CircleSectionOf(t, occ, i) ==
    LET w == CircleWindowOf(t, i)
    IN  [window |-> w, xa |-> Setters(occ, w, <<"x", "a">>), ya |-> Setters(occ, w, <<"y", "a">>), du |-> Setters(occ, w, <<"d", "u">>)]

NoSection == [window |-> {}, xa |-> {}, ya |-> {}, du |-> {}]

RECURSIVE CircleSectionsFrom(_, _, _)
CircleSectionsFrom(t, occ, i) ==
    IF i > Len(t) THEN << >>
    ELSE <<IF startsWith(t[i], <<"<", "1", "0", "2">>) THEN CircleSectionOf(t, occ, i) ELSE NoSection>> \o CircleSectionsFrom(t, occ, i + 1)

\* the document as findCircles reads it
CircleView ==
    LET lines == split(mprContent)
        t == TrimFrom(lines, 1)
        occ == CircleOccurrencesFrom(t, circleVars, 1)
    IN  [lines |-> lines, t |-> t, occ |-> occ, markers |-> MarkersOf(t, <<"<", "1", "0", "2">>), sec |-> CircleSectionsFrom(t, occ, 1)]

SetsAll(sec) == sec.xa # {} /\ sec.ya # {} /\ sec.du # {}

RECURSIVE IsolatedCirclesFrom(_, _)
\* for each line, what findCircles finds in the <102 section that starts there,
\* taken alone (nothing where no section starts)
IsolatedCirclesFrom(v, i) ==
    IF i > Len(v.t) THEN << >>
    ELSE <<IF i \in v.markers THEN ScanCircles(SubSeq(v.lines, i, i + Cardinality(v.sec[i].window)), circleVars, 1, << >>) ELSE << >>>> \o IsolatedCirclesFrom(v, i + 1)

RECURSIVE Concat(_)
Concat(ss) == IF ss = << >> THEN << >> ELSE Head(ss) \o Concat(Tail(ss))

RECURSIVE ExpectedCirclesFrom(_, _)
\* the circles of the <102 lines from i on whose windows set all three fields
ExpectedCirclesFrom(v, i) ==
    IF i > Len(v.t) THEN << >>
    ELSE (IF i \in v.markers /\ SetsAll(v.sec[i])
          THEN <<[xa |-> LastSet(v.occ, v.sec[i].xa), ya |-> LastSet(v.occ, v.sec[i].ya), du |-> LastSet(v.occ, v.sec[i].du)]>>
          ELSE << >>) \o ExpectedCirclesFrom(v, i + 1)

\* the lines with those of the set s replaced by a line that is ignored
Blanked(lines, s) == [j \in 1..Len(lines) |-> IF j \in s THEN Filler ELSE lines[j]]

-----------------------------------------------------------------------------
(* C1: a document with no $E line, or whose first $E window does not set   *)
(* all of x, y and z, makes findLine throw; POST answers status 500 with   *)
(* the error message; createDxf is never reached and no status-200         *)
(* response is produced.                                                   *)
C1_MissingLineFails ==
    LineScanned => LET v == LineView IN
        LineIncomplete(v) =>
            /\ hpc \in {"caught", "done"}
            /\ dxfContent = << >>
            /\ reply.status # 200
            /\ hpc = "done" => reply = ErrorResponse(500, LineErrorMessage)

\* a $E section whose window sets x but not the whole triple has been answered
C1_Witness == hpc = "done" /\ reply.status = 500 /\ LineView.first # 0 /\ LineView.x # {} /\ LineIncomplete(LineView)

(* C2: findCircles returns one circle per <102 line whose window (15 lines *)
(* at most, cut by a blank line or a line starting with <, [ or $) sets    *)
(* all of xa, ya and du, none for any other <102 line, in document order;  *)
(* every <102 line is processed, also one that closed the previous window; *)
(* incomplete circles are dropped and leave their neighbours alone.        *)
C2_CirclesPerMarker ==
    CirclesReturned => LET v == CircleView
                           iso == IsolatedCirclesFrom(v, 1)
                       IN  /\ circles = Concat(iso)
                           /\ \A i \in v.markers : Len(iso[i]) = (IF SetsAll(v.sec[i]) THEN 1 ELSE 0)

\* an incomplete circle between two complete ones, the second <102 closing the first window
C2_Witness ==
    /\ CirclesReturned
    /\ Len(circles) = 2
    /\ circles[1] # circles[2]
    /\ LET v == CircleView IN
       \E i, j, l \in v.markers : i < j /\ j < l /\ SetsAll(v.sec[i]) /\ ~SetsAll(v.sec[j]) /\ SetsAll(v.sec[l]) /\ j = i + Cardinality(v.sec[i].window) + 1

(* C3: the params of findLine depend only on the variable table and on the *)
(* lines of the window of the first $E line (10 lines at most, ending      *)
(* before a blank line or a line starting with $E, [ or <): findLine gives *)
(* the same params on the marker and its window alone, so no line outside  *)
(* the window sets or changes x, y or z.                                   *)
C3_WindowOnly ==
    LineScanned => LET v == LineView IN
        params = (IF v.first = 0 THEN NullParams
                  ELSE ScanLine(SubSeq(v.lines, v.first, v.first + Cardinality(v.window)), lineVars))

\* findLine returned from a full window, the line after it an occurrence of x that set nothing
C3_Witness ==
    /\ LineReturned
    /\ LET v == LineView IN
       /\ Cardinality(v.window) = LineLookahead
       /\ v.first + LineLookahead + 1 <= Len(v.t)
       /\ v.occ[v.first + LineLookahead + 1].key = <<"x">>
       /\ v.occ[v.first + LineLookahead + 1].value # params.x

(* C4: in findLine and in findCircles a field holds the number parsed from *)
(* the table's value when the token of the occurrence that set it is a     *)
(* name of the variables table, and the number parsed from the token       *)
(* itself otherwise; the table is consulted once, never for its own value. *)
C4_Substitution ==
    /\ LineScanned => LET v == LineView IN params = [x |-> LastSet(v.occ, v.x), y |-> LastSet(v.occ, v.y), z |-> LastSet(v.occ, v.z)]
    /\ CirclesReturned => circles = ExpectedCirclesFrom(CircleView, 1)

\* x came from the table although a later x named a variable whose value is itself a
\* name of the table; a circle's du came from the table
C4_Witness ==
    /\ CirclesReturned
    /\ LET v == LineView IN
       /\ v.x # {}
       /\ v.occ[SetMax(v.x)].token \in DOMAIN lineVars
       /\ \E j \in v.window : j > SetMax(v.x) /\ v.occ[j].key = <<"x">> /\ v.occ[j].token \in DOMAIN lineVars /\ lineVars[v.occ[j].token] \in DOMAIN lineVars
    /\ LET c == CircleView IN
       \E i \in c.markers : SetsAll(c.sec[i]) /\ c.occ[SetMax(c.sec[i].du)].token \in DOMAIN circleVars

\* 2 * v
Twice(v) == IF v.k = "fin" THEN Normal(2 * v.m, v.e) ELSE v

\* a line of the output that holds exactly the number v
HoldsNumber(l, v) == l = NumberToString(v) /\ parseFloat(l) = v

(* C5: createDxf returns, in this order, an empty HEADER section, the      *)
(* opening of one ENTITIES section, one LINE on layer 0 from               *)
(* (0.0, 0.0, line.z) to (line.x, line.y, line.z), one CIRCLE per circle   *)
(* in input order on layer 0 with center (xa, ya, 0.0) and radius du / 2,  *)
(* then ENDSEC and EOF; there are as many CIRCLE entities as circles.      *)
C5_DxfLayout ==
    DxfCreated => LET out == split(dxfContent) IN
        /\ Len(out) = 26 + 12 * Len(circles) + 4
        /\ SubSeq(out, 1, 10) = <<<<"0">>, <<"S", "E", "C", "T", "I", "O", "N">>, <<"2">>, <<"H", "E", "A", "D", "E", "R">>, <<"0">>, <<"E", "N", "D", "S", "E", "C">>, <<"0">>, <<"S", "E", "C", "T", "I", "O", "N">>, <<"2">>, <<"E", "N", "T", "I", "T", "I", "E", "S">>>>
        /\ SubSeq(out, 11, 19) = <<<<"0">>, <<"L", "I", "N", "E">>, <<"8">>, <<"0">>, <<"1", "0">>, <<"0", ".", "0">>, <<"2", "0">>, <<"0", ".", "0">>, <<"3", "0">>>>
        /\ HoldsNumber(out[20], params.z)
        /\ out[21] = <<"1", "1">> /\ HoldsNumber(out[22], params.x)
        /\ out[23] = <<"2", "1">> /\ HoldsNumber(out[24], params.y)
        /\ out[25] = <<"3", "1">> /\ HoldsNumber(out[26], params.z)
        /\ \A n \in 1..Len(circles) :
              LET at == 26 + 12 * (n - 1) IN
              /\ SubSeq(out, at + 1, at + 5) = <<<<"0">>, <<"C", "I", "R", "C", "L", "E">>, <<"8">>, <<"0">>, <<"1", "0">>>>
              /\ HoldsNumber(out[at + 6], circles[n].xa)
              /\ out[at + 7] = <<"2", "0">> /\ HoldsNumber(out[at + 8], circles[n].ya)
              /\ SubSeq(out, at + 9, at + 11) = <<<<"3", "0">>, <<"0", ".", "0">>, <<"4", "0">>>>
              /\ Twice(parseFloat(out[at + 12])) = circles[n].du
              /\ NumberToString(parseFloat(out[at + 12])) = out[at + 12]
        /\ SubSeq(out, Len(out) - 3, Len(out)) = <<<<"0">>, <<"E", "N", "D", "S", "E", "C">>, <<"0">>, <<"E", "O", "F">>>>
        /\ Cardinality({i \in 1..Len(out) : out[i] = <<"C", "I", "R", "C", "L", "E">>}) = Len(circles)
        /\ Cardinality({i \in 1..Len(out) : out[i] = <<"L", "I", "N", "E">>}) = 1

\* a document rendered with two different circles, one of an odd diameter
C5_Witness ==
    /\ DxfCreated
    /\ Len(circles) >= 2
    /\ circles[1] # circles[2]
    /\ \E n \in 1..Len(circles) : circles[n].du.k = "fin" /\ Half(circles[n].du).e < 0

(* C6: the x, y and z findLine returns and the xa, ya and du of every      *)
(* circle findCircles returns are finite numbers: no infinity and no NaN   *)
(* reaches createDxf.                                                      *)
C6_AllFinite ==
    /\ LineReturned => \A v \in {params.x, params.y, params.z} : isFinite(v)
    /\ CirclesReturned => \A n \in 1..Len(circles) : \A v \in {circles[n].xa, circles[n].ya, circles[n].du} : isFinite(v)

(* C7: the response to a request is a function of its input text only:     *)
(* under every interleaving of the invocations at their await points a     *)
(* request gets the response of converting its own text, and two requests  *)
(* with the same input get the same response.                              *)
C7_ResponseOfOwnInput ==
    \A r \in Req : spc[r] = "done" =>
        /\ upload[r] \notin {NoFile, BadForm} => sReply[r] = Convert(upload[r])
        /\ \A q \in Req : (spc[q] = "done" /\ upload[q] = upload[r]) => sReply[q] = sReply[r]

\* one request answered while another, with another text, waits for its bytes
C7_Witness ==
    \E r, q \in Req :
        /\ spc[r] = "done" /\ sReply[r].status = 200
        /\ spc[q] = "arrayBuffer" /\ sFile[q] # sFile[r]

\* a line that ends the [001 section
VarCut(l) == l = << >> \/ startsWith(l, <<"[">>) \/ startsWith(l, <<"<">>) \/ startsWith(l, <<"$">>)

\* the table the specification describes, of the trimmed lines t
LastWriteWins(t) ==
    LET headers == MarkersOf(t, <<"[", "0", "0", "1">>)
        first == IF headers = {} THEN 0 ELSE SetMin(headers)
        section == {j \in 1..Len(t) : first # 0 /\ first < j /\ \A k \in (first + 1)..j : ~VarCut(t[k])}
        assignments == {j \in section : VarMatch(t[j]).ok}
        names == {VarMatch(t[j]).key : j \in assignments}
    IN  [n \in names |-> VarMatch(t[SetMax({j \in assignments : VarMatch(t[j]).key = n})]).value]

(* C8: parseVariables returns the last-write-wins mapping of the           *)
(* NAME = "VALUE" assignments on the lines strictly between the first line *)
(* starting with [001 and the first following line that is blank or starts *)
(* with [, < or $; the table is empty when no line starts with [001.       *)
C8_VariablesSection == LineScanned => lineVars = LastWriteWins(TrimFrom(split(mprContent), 1))

(* C9: in a window of findLine or findCircles an occurrence of a           *)
(* recognized key whose resolved value is not a number sets nothing, does  *)
(* not stop the scan and changes no other field, and of the occurrences of *)
(* one key the last numeric one wins: the result is that of the document   *)
(* in which every such occurrence, and every occurrence overwritten later  *)
(* in its window, is replaced by a line that is ignored.                   *)
C9_NonNumericSkipped ==
    /\ LineScanned => LET v == LineView IN
                      params = ScanLine(Blanked(v.lines, Overruled(v.occ, v.window, {<<"x">>, <<"y">>, <<"z">>})), lineVars)
    /\ CirclesReturned => LET c == CircleView IN
                          circles = ScanCircles(Blanked(c.lines, UNION {Overruled(c.occ, c.sec[i].window, {<<"x", "a">>, <<"y", "a">>, <<"d", "u">>}) : i \in c.markers}), circleVars, 1, << >>)

\* x set, then an x that is not a number, then y set after it; and a complete
\* circle whose window holds a du that is not a number after the du that set it
C9_Witness ==
    /\ CirclesReturned
    /\ LET v == LineView IN
       \E j \in v.window :
           /\ v.occ[j].key = <<"x">> /\ isNaN(v.occ[j].value)
           /\ v.x # {} /\ SetMax(v.x) < j
           /\ \E j2 \in v.y : j2 > j
    /\ LET c == CircleView IN
       \E i \in c.markers : SetsAll(c.sec[i]) /\ \E j \in c.sec[i].window : c.occ[j].key = <<"d", "u">> /\ isNaN(c.occ[j].value) /\ j > SetMax(c.sec[i].du)

\* a handleSubmit invocation has started and not ended
Outstanding == \E i \in Sub : cpc[i] \in {"fetch", "blob", "json"}

(* C10: on the upload page `loading` is true exactly while a handleSubmit  *)
(* invocation has started and not yet ended: true whenever a request is    *)
(* outstanding, false once every started submission has ended.             *)
C10_LoadingTracksRequests == loading <=> Outstanding

====
